---- MODULE Spec2Model ----
(***************************************************************************)
(* A model of the project-health scoring and reporting engine of           *)
(* backend/app: the risk classifier and priority scorer of AIService, the  *)
(* ranking, the timeline status and the daily-report upsert of             *)
(* ReportService, and the task lifecycle of TaskService and api/tasks.py.  *)
(*                                                                         *)
(* Encoding of Python values                                               *)
(*   None (string-valued fields)   the string None == "None"               *)
(*   None (datetime / int fields)  the empty tuple Null == <<>>            *)
(*   a datetime or int value v     the 1-tuple <<v>>                       *)
(*   a datetime                    a whole number of clock ticks, with     *)
(*                                 TicksPerDay ticks to the calendar day   *)
(*   a dict                        a record; a key the dict lacks is a     *)
(*                                 field the record lacks                  *)
(*   a raised exception            the record Raise(name), or the name     *)
(*                                 itself where the result is a string     *)
(*   a float score                 an integer (every weight is integral)   *)
(***************************************************************************)
EXTENDS Integers, Sequences, FiniteSets, TLC

VARIABLES
    now,        \* the wall clock (datetime.now()), in ticks
    tasks,      \* the tasks table: a sequence of rows, row i has id i
    reports,    \* the daily_reports table: a sequence of rows, row i has id i
    frame,      \* per caller: the locals of a generate_daily_report call in progress
    last,       \* per caller: what the caller's latest finished calls were given and returned
    input,      \* the argument of a pure function under check
    output      \* the result of the pure function applied to input

vars == <<now, tasks, reports, frame, last, input, output>>
store_vars == <<now, tasks, reports, frame, last>>
pure_vars == <<input, output>>

-----------------------------------------------------------------------------
(* Bounds and units *)

TicksPerDay == 2
MaxTime == 21

None == "None"
Null == <<>>

(* dict.get(k, default) *)
Get(d, k, default) == IF k \in DOMAIN d THEN d[k] ELSE default

(* a raised exception, where the value returned otherwise is a record *)
Raise(exception) == [raised |-> exception]
IsRaise(result) == "raised" \in DOMAIN result

(* Python truthiness of an optional string: None and "" are falsy *)
Truthy(s) == s # None /\ s # ""

(* datetime -> date: the calendar day of a tick *)
DateOf(t) == t \div TicksPerDay

(* (a - b).days of two datetimes: timedelta.days is the floor of the difference in days *)
timedelta_days(a, b) == (a - b) \div TicksPerDay

StatusValues == {"todo", "in_progress", "done", "blocked", "unclear"}
RiskValues == {"low", "medium", "high"}
TypeValues == {"feature", "bug", "research", "blocked", "unclear"}

-----------------------------------------------------------------------------
(* AIService: the risk classifier and the priority scorer *)

risk_thresholds_gt(risk_score) ==
    IF risk_score > 4 THEN "high"
    ELSE IF risk_score > 2 THEN "medium"
    ELSE "low"

risk_thresholds_high3(risk_score) ==
    IF risk_score >= 3 THEN "high"
    ELSE IF risk_score >= 2 THEN "medium"
    ELSE "low"

risk_thresholds(risk_score) ==
    IF risk_score >= 4 THEN "high"
    ELSE IF risk_score >= 2 THEN "medium"
    ELSE "low"

(* detect_risk_level(task): "low" | "medium" | "high", or "TypeError" when
   story_points is present and None (None >= 8 raises) *)
detect_risk_level(task) ==
    LET deadline == Get(task, "deadline", Null)
        overdue == IF deadline # Null /\ deadline[1] < Get(task, "current_date", Null)[1]
                   THEN 3 ELSE 0
        unassigned == IF ~Truthy(Get(task, "assignee", None)) THEN 1 ELSE 0
        blocked == IF Get(task, "status", None) = "blocked" THEN 3 ELSE 0
        unclear == IF Get(task, "status", None) = "unclear"
                      \/ ~Truthy(Get(task, "description", None))
                   THEN 2 ELSE 0
        story_points == Get(task, "story_points", <<0>>)
    IN  IF story_points = Null THEN "TypeError"
        ELSE risk_thresholds(overdue + unassigned + blocked + unclear
                             + (IF story_points[1] >= 8 THEN 1 ELSE 0))

urgency_lt(days_until_deadline) ==
    IF days_until_deadline < 0 THEN 100
    ELSE IF days_until_deadline < 1 THEN 50
    ELSE IF days_until_deadline < 3 THEN 30
    ELSE IF days_until_deadline < 7 THEN 20
    ELSE 0

urgency_far_bonus(days_until_deadline) ==
    IF days_until_deadline < 0 THEN 100
    ELSE IF days_until_deadline <= 1 THEN 50
    ELSE IF days_until_deadline <= 3 THEN 30
    ELSE IF days_until_deadline <= 7 THEN 20
    ELSE 25

urgency(days_until_deadline) ==
    IF days_until_deadline < 0 THEN 100
    ELSE IF days_until_deadline <= 1 THEN 50
    ELSE IF days_until_deadline <= 3 THEN 30
    ELSE IF days_until_deadline <= 7 THEN 20
    ELSE 0

(* risk_weights.get(level, 5) *)
risk_weights(level) ==
    IF level = "high" THEN 30
    ELSE IF level = "medium" THEN 15
    ELSE 5

(* calculate_priority_score(task) *)
calculate_priority_score(task) ==
    LET deadline == Get(task, "deadline", Null)
        status == Get(task, "status", None)
    IN  (IF deadline # Null
         THEN urgency(timedelta_days(deadline[1], Get(task, "current_date", deadline)[1]))
         ELSE 0)
        + (IF status = "blocked" THEN 40
           ELSE IF status = "in_progress" THEN 25
           ELSE 0)
        + risk_weights(Get(task, "ai_risk_level", "low"))
        + (IF Get(task, "task_type", None) = "bug" THEN 20 ELSE 0)

-----------------------------------------------------------------------------
(* The specification of the pure classifier and scorer: the argument is any
   task dict the callers can build, and each function is applied to it. *)

NoOutput == [op |-> "none"]

FnNows == {2 * TicksPerDay, 2 * TicksPerDay + 1}
FnDeadlines == {Null} \cup {<<t>> : t \in 0..MaxTime}

(* the dicts of _task_to_dict, as the classifier reads them *)
RiskViews ==
    [title : {"T"},
     description : {None, "", "text"},
     status : StatusValues \cup {None},
     deadline : FnDeadlines,
     assignee : {None, "", "alice"},
     story_points : {Null, <<3>>, <<7>>, <<8>>, <<13>>},
     current_date : {<<t>> : t \in FnNows},
     ai_risk_level : {None},
     task_type : {"feature"}]

(* the dicts of generate_daily_report, which carry no story_points, and of
   _task_to_dict, as the scorer reads them *)
ScoreViews ==
    [title : {"T"},
     description : {"text"},
     status : StatusValues \cup {None},
     deadline : FnDeadlines,
     assignee : {"alice"},
     current_date : {<<t>> : t \in FnNows},
     ai_risk_level : RiskValues \cup {None},
     task_type : {"feature", "bug", "research"}]

NoStoryPoints ==
    [title : {"T"},
     description : {None, "text"},
     status : {"todo", "blocked", "unclear"},
     deadline : {Null, <<0>>, <<MaxTime>>},
     assignee : {None, "alice"},
     current_date : {<<t>> : t \in FnNows},
     ai_risk_level : {"low"},
     task_type : {"feature"}]

FnInit ==
    /\ input \in RiskViews \cup ScoreViews \cup NoStoryPoints
    /\ output = NoOutput
    /\ now = 0 /\ tasks = <<>> /\ reports = <<>>
    /\ frame = <<>> /\ last = <<>>

Call_detect_risk_level ==
    /\ output = NoOutput
    /\ output' = [op |-> "detect_risk_level", val |-> detect_risk_level(input)]
    /\ UNCHANGED <<input, store_vars>>

Call_calculate_priority_score ==
    /\ output = NoOutput
    /\ output' = [op |-> "calculate_priority_score",
                  val |-> calculate_priority_score(input)]
    /\ UNCHANGED <<input, store_vars>>

FnNext ==
    \/ Call_detect_risk_level
    \/ Call_calculate_priority_score

FnSpec == FnInit /\ [][FnNext]_vars

-----------------------------------------------------------------------------
(* AIService.rank_tasks_by_priority *)

(* task[k] = v on a dict *)
SetKey(d, k, v) == [x \in DOMAIN d \cup {k} |-> IF x = k THEN v ELSE d[x]]

(* the sort key: x.get('priority_score', 0) *)
SortKey(x) == Get(x, "priority_score", 0)

(* x placed into a list already in non-increasing key order: before the
   first element of key <= key(x), so ahead of its equals *)
InsertBeforeEquals(x, sortedSeq) ==
    LET before == {i \in 1..Len(sortedSeq) : SortKey(sortedSeq[i]) > SortKey(x)}
        n == Cardinality(before)
    IN  SubSeq(sortedSeq, 1, n) \o <<x>> \o SubSeq(sortedSeq, n + 1, Len(sortedSeq))

(* x placed into a list already in non-increasing key order: behind every
   element of key >= key(x), so behind its equals *)
InsertAfterEquals(x, sortedSeq) ==
    LET before == {i \in 1..Len(sortedSeq) : SortKey(sortedSeq[i]) >= SortKey(x)}
        n == Cardinality(before)
    IN  SubSeq(sortedSeq, 1, n) \o <<x>> \o SubSeq(sortedSeq, n + 1, Len(sortedSeq))

RECURSIVE sorted_reverse_unstable(_)
sorted_reverse_unstable(seq) ==
    IF seq = <<>> THEN <<>>
    ELSE InsertBeforeEquals(seq[Len(seq)],
                            sorted_reverse_unstable(SubSeq(seq, 1, Len(seq) - 1)))

(* sorted(seq, key=..., reverse=True): Python's sort is stable, and stays
   stable under reverse=True (equal keys keep their input order) *)
RECURSIVE sorted_reverse(_)
sorted_reverse(seq) ==
    IF seq = <<>> THEN <<>>
    ELSE InsertAfterEquals(seq[Len(seq)],
                           sorted_reverse(SubSeq(seq, 1, Len(seq) - 1)))

(* the loop of rank_tasks_by_priority: every dict gets its priority_score
   from calculate_priority_score, which reads the dict's own ai_risk_level *)
score_tasks(task_dicts) ==
    [i \in DOMAIN task_dicts |->
        SetKey(task_dicts[i], "priority_score", calculate_priority_score(task_dicts[i]))]

rank_tasks_by_priority(task_dicts) == sorted_reverse(score_tasks(task_dicts))

-----------------------------------------------------------------------------
(* The specification of the ranking: a list of task dicts is built one dict
   at a time and then ranked. *)

MaxRank == 3

(* the dicts of generate_daily_report that the ranking is given; the id is
   the place in the list *)
RankDicts(id) ==
    [id : {id},
     title : {"T"},
     description : {"text"},
     status : {"todo", "in_progress"},
     deadline : {Null, <<0>>},
     assignee : {"alice"},
     priority_score : {0, 500},
     ai_risk_level : {"low", "high"},
     task_type : {"feature"},
     current_date : {<<2 * TicksPerDay>>}]

RankInit ==
    /\ input = <<>>
    /\ output = NoOutput
    /\ now = 0 /\ tasks = <<>> /\ reports = <<>>
    /\ frame = <<>> /\ last = <<>>

AddRankTask ==
    /\ output = NoOutput
    /\ Len(input) < MaxRank
    /\ \E d \in RankDicts(Len(input) + 1) : input' = Append(input, d)
    /\ UNCHANGED <<output, store_vars>>

Call_rank_tasks_by_priority ==
    /\ output = NoOutput
    /\ output' = [op |-> "rank_tasks_by_priority", val |-> rank_tasks_by_priority(input)]
    /\ UNCHANGED <<input, store_vars>>

RankNext ==
    \/ AddRankTask
    \/ Call_rank_tasks_by_priority

RankSpec == RankInit /\ [][RankNext]_vars

-----------------------------------------------------------------------------
(* ReportService.get_timeline_status *)

(* db.query(Task).filter(Task.project_id == project_id).all(): the rows of
   the project, in table order *)
RECURSIVE SelectSeq_project(_, _)
SelectSeq_project(rows, project_id) ==
    IF rows = <<>> THEN <<>>
    ELSE LET rest == SelectSeq_project(SubSeq(rows, 1, Len(rows) - 1), project_id)
             r == rows[Len(rows)]
         IN  IF r.project_id = project_id THEN Append(rest, r) ELSE rest

(* The comparisons of the source are count > total * 0.3 and count > total * 0.2
   in binary floating point.  total * 0.3 and total * 0.2 round to the exact
   integer whenever the exact product is one, so they order against a count
   as the exact fractions 3/10 and 1/5 do. *)
off_track_ge(total_tasks, blocked_tasks, overdue_tasks) ==
    \/ blocked_tasks * 10 >= total_tasks * 3
    \/ overdue_tasks * 10 >= total_tasks * 2

off_track(total_tasks, blocked_tasks, overdue_tasks) ==
    \/ blocked_tasks * 10 > total_tasks * 3
    \/ overdue_tasks * 10 > total_tasks * 2

at_risk(total_tasks, high_risk_tasks, overdue_tasks) ==
    \/ high_risk_tasks * 10 > total_tasks * 3
    \/ overdue_tasks > 0

(* the status of a task list at the time nowT; the completion rate of the
   metrics is kept in tenths of a percent, round(completion_rate * 100, 1) *)
timeline_status(rows, nowT) ==
    IF rows = <<>>
    THEN [status |-> "Needs More Info", reason |-> [text |-> "No tasks found in project"]]
    ELSE
    LET total_tasks == Len(rows)
        IsDone(t) == t.status = "done"
        IsBlocked(t) == t.status = "blocked"
        IsOverdue(t) == t.deadline # Null /\ t.deadline[1] < nowT /\ t.status # "done"
        IsHighRisk(t) == t.ai_risk_level = "high"
        completed_tasks == Cardinality({i \in DOMAIN rows : IsDone(rows[i])})
        blocked_tasks == Cardinality({i \in DOMAIN rows : IsBlocked(rows[i])})
        overdue_tasks == Cardinality({i \in DOMAIN rows : IsOverdue(rows[i])})
        high_risk_tasks == Cardinality({i \in DOMAIN rows : IsHighRisk(rows[i])})
        metrics == [total_tasks |-> total_tasks,
                    completed |-> completed_tasks,
                    blocked |-> blocked_tasks,
                    overdue |-> overdue_tasks,
                    high_risk |-> high_risk_tasks,
                    completion_rate |->
                        (2000 * completed_tasks + total_tasks) \div (2 * total_tasks)]
    IN  IF off_track(total_tasks, blocked_tasks, overdue_tasks)
        THEN [status |-> "Off Track",
              reason |-> [text |-> "{} blocked tasks, {} overdue tasks",
                          args |-> <<blocked_tasks, overdue_tasks>>],
              metrics |-> metrics]
        ELSE IF at_risk(total_tasks, high_risk_tasks, overdue_tasks)
        THEN [status |-> "At Risk",
              reason |-> [text |-> "{} high-risk tasks, {} overdue tasks",
                          args |-> <<high_risk_tasks, overdue_tasks>>],
              metrics |-> metrics]
        ELSE IF completed_tasks * 10 > total_tasks * 7
        THEN [status |-> "On Track",
              reason |-> [text |-> "{}% tasks completed",
                          args |-> <<(100 * completed_tasks) \div total_tasks>>],
              metrics |-> metrics]
        ELSE [status |-> "On Track",
              reason |-> [text |-> "Project progressing normally"],
              metrics |-> metrics]

get_timeline_status(project_id) ==
    timeline_status(SelectSeq_project(tasks, project_id), now)

-----------------------------------------------------------------------------
(* The specification of the timeline status: the task table of project 1 is
   filled one row at a time and the status is asked for.  The status only
   counts rows, so the table is filled in the order of TimelineRows: every
   multiset of these rows is reached once, not once per arrangement. *)

MaxTimeline == 10

TimelineNow == 2 * TicksPerDay

TimelineRow(status, deadline, risk) ==
    [project_id |-> 1, title |-> "T", description |-> "text", status |-> status,
     task_type |-> "feature", deadline |-> deadline, assignee |-> "alice",
     priority_score |-> 0, ai_risk_level |-> risk, story_points |-> <<3>>]

TimelineRows ==
    << TimelineRow("todo", Null, "low"),
       TimelineRow("done", <<0>>, "low"),
       TimelineRow("done", Null, "high"),
       TimelineRow("blocked", Null, "medium"),
       TimelineRow("blocked", <<0>>, "high"),
       TimelineRow("in_progress", <<0>>, "low"),
       TimelineRow("in_progress", <<TimelineNow>>, "high"),
       TimelineRow("unclear", <<MaxTime>>, "medium") >>

TimelineInit ==
    /\ now = TimelineNow
    /\ tasks = <<>>
    /\ reports = <<>> /\ frame = <<>> /\ last = <<>>
    /\ input = 1
    /\ output = NoOutput

AddTimelineTask ==
    /\ output = NoOutput
    /\ Len(tasks) < MaxTimeline
    /\ \E k \in DOMAIN TimelineRows :
          /\ tasks # <<>> => \E j \in 1..k : TimelineRows[j] = tasks[Len(tasks)]
          /\ tasks' = Append(tasks, TimelineRows[k])
    /\ UNCHANGED <<now, reports, frame, last, input, output>>

Call_get_timeline_status ==
    /\ output = NoOutput
    /\ output' = [op |-> "get_timeline_status", val |-> get_timeline_status(input)]
    /\ UNCHANGED <<input, store_vars>>

TimelineNext ==
    \/ AddTimelineTask
    \/ Call_get_timeline_status

TimelineSpec == TimelineInit /\ [][TimelineNext]_vars

-----------------------------------------------------------------------------
(* TaskService and api/tasks.py: the task lifecycle *)

(* the projects table: the projects that exist (and belong to the user), and
   an id no project has *)
Projects == {1, 2}
MissingProjects == {3}

(* AIService.analyze_task: the provider's parsed JSON on success, the fixed
   dict of the except branch when the call or the parsing fails *)
ProviderFailure == [failed |-> TRUE]

analyze_task(task_title, task_description, provider) ==
    IF provider = ProviderFailure
    THEN [description |-> IF Truthy(task_description)
                          THEN task_description ELSE task_title,
          acceptance_criteria |-> <<>>,
          subtasks |-> <<>>,
          story_points |-> <<3>>,
          task_type |-> "feature",
          tags |-> <<>>]
    ELSE provider

(* Task(...) as the services construct it: a column not given is None until
   the row is flushed *)
NewTask(project_id, title, ai_analysis, description, status, assignee, deadline) ==
    [project_id |-> project_id,
     title |-> title,
     description |-> Get(ai_analysis, "description", description),
     status |-> status,
     task_type |-> Get(ai_analysis, "task_type", "feature"),
     deadline |-> deadline,
     assignee |-> assignee,
     priority_score |-> 0,
     ai_risk_level |-> None,
     story_points |-> Get(ai_analysis, "story_points", <<3>>)]

(* TaskService._task_to_dict, with datetime.now() = nowT *)
_task_to_dict(task, nowT) ==
    [title |-> task.title,
     description |-> task.description,
     status |-> task.status,
     deadline |-> task.deadline,
     assignee |-> task.assignee,
     story_points |-> task.story_points,
     current_date |-> <<nowT>>,
     ai_risk_level |-> task.ai_risk_level,
     task_type |-> task.task_type]

(* the two statements "Calculate priority and risk" of import_from_csv and
   create_task_from_text: one dict is built from the new task, whose
   ai_risk_level is still None; the score is computed from it, then the label.
   The result is the task with both fields set, or the TypeError of the
   classifier *)
with_derived_fields(task, nowT) ==
    LET task_dict == _task_to_dict(task, nowT)
        priority_score == calculate_priority_score(task_dict)
        ai_risk_level == detect_risk_level(task_dict)
    IN  IF ai_risk_level = "TypeError" THEN Raise("TypeError")
        ELSE [task EXCEPT !.priority_score = priority_score,
                          !.ai_risk_level = ai_risk_level]

(* the INSERT of a task: Column(Enum(TaskStatus), default=TaskStatus.TODO) *)
Flush(task) == IF task.status = None THEN [task EXCEPT !.status = "todo"] ELSE task

(* TaskService.create_task_from_text: the stored row, or the exception *)
create_task_from_text(title, description, project_id, provider, nowT) ==
    LET ai_analysis == analyze_task(title, description, provider)
        task == NewTask(project_id, title, ai_analysis, description, None, None, Null)
        scored == with_derived_fields(task, nowT)
    IN  IF IsRaise(scored) THEN scored ELSE Flush(scored)

(* datetime.fromisoformat on the strings the model sends: the datetime, or
   <<>> for the ValueError it raises on any other string *)
fromisoformat(s) ==
    CASE s = "day0" -> <<0>>
      [] s = "day0T12" -> <<1>>
      [] s = "day1" -> <<TicksPerDay>>
      [] OTHER -> <<>>

(* api/tasks.py create_task: the row it leaves in the table; task_data is the
   TaskCreate body *)
create_task_row(task_data, provider, nowT) ==
    LET task == create_task_from_text(task_data.title, task_data.description,
                                      task_data.project_id, provider, nowT)
        parsed == IF Truthy(task_data.deadline)
                  THEN fromisoformat(task_data.deadline) ELSE <<>>
    IN  IF IsRaise(task) THEN task
        ELSE [task EXCEPT
                 !.deadline = IF parsed # <<>> THEN parsed ELSE @,
                 !.assignee = IF Truthy(task_data.assignee) THEN task_data.assignee ELSE @]

(* str.lower() on the status strings the model sends *)
lower(str) ==
    CASE str = "TODO" -> "todo"
      [] str = "To Do" -> "to do"
      [] str = "In Progress" -> "in progress"
      [] str = "Done" -> "done"
      [] str = "Blocked" -> "blocked"
      [] str = "IN PROGRESS" -> "in progress"
      [] str = "Doing" -> "doing"
      [] str = "Completed" -> "completed"
      [] str = "Unclear" -> "unclear"
      [] OTHER -> str

(* str.replace(' ', '_') on the lower-cased status strings *)
replace_space(str) ==
    CASE str = "to do" -> "to_do"
      [] str = "in progress" -> "in_progress"
      [] OTHER -> str

status_map ==
    [todo |-> "todo", to_do |-> "todo",
     in_progress |-> "in_progress", inprogress |-> "in_progress", doing |-> "in_progress",
     done |-> "done", completed |-> "done",
     blocked |-> "blocked", unclear |-> "unclear"]

(* TaskService._normalize_status: the TaskStatus, or "AttributeError" for
   None.lower() *)
_normalize_status(status) ==
    IF status = None THEN "AttributeError"
    ELSE Get(status_map, replace_space(lower(status)), "todo")

(* datetime.strptime with '%Y-%m-%d', then with '%m/%d/%Y', on the strings
   the model sends; None when both raise *)
parse_deadline(deadline_str) ==
    IF ~Truthy(deadline_str) THEN Null
    ELSE CASE deadline_str = "day0" -> <<0>>
           [] deadline_str = "day1" -> <<TicksPerDay>>
           [] deadline_str = "us/day0" -> <<0>>
           [] OTHER -> Null

(* row.get(a) or row.get(b, default) *)
GetOr(row, a, b, default) ==
    IF Truthy(Get(row, a, None)) THEN row[a] ELSE Get(row, b, default)

(* one row of import_from_csv: no task when the row is skipped, one task
   when it gives one, or the exception the row raises *)
import_row(row, project_id, provider, nowT) ==
    LET title == IF Truthy(Get(row, "title", None)) THEN row.title
                 ELSE IF Truthy(Get(row, "Title", None)) THEN row.Title
                 ELSE IF Truthy(Get(row, "name", None)) THEN row.name
                 ELSE Get(row, "Name", None)
        description == GetOr(row, "description", "Description", "")
        status == GetOr(row, "status", "Status", "todo")
        assignee == GetOr(row, "assignee", "Assignee", "")
        deadline_str == GetOr(row, "deadline", "Deadline", "")
        ai_analysis == analyze_task(title, description, provider)
        normalized == _normalize_status(status)
        task == NewTask(project_id, title, ai_analysis, description,
                        normalized,
                        IF Truthy(assignee) THEN assignee ELSE None,
                        parse_deadline(deadline_str))
        scored == with_derived_fields(task, nowT)
    IN  IF ~Truthy(title) THEN [tasks |-> <<>>]
        ELSE IF normalized = "AttributeError" THEN Raise("AttributeError")
        ELSE IF IsRaise(scored) THEN scored
        ELSE [tasks |-> <<Flush(scored)>>]

(* the loop of import_from_csv over the rows: the tasks in row order, or the
   first exception; providers[i] is what analyze_task gets for row i *)
RECURSIVE import_rows(_, _, _, _)
import_rows(rows, project_id, providers, nowT) ==
    IF rows = <<>> THEN [tasks |-> <<>>]
    ELSE LET n == Len(rows)
             before == import_rows(SubSeq(rows, 1, n - 1), project_id, providers, nowT)
             this == import_row(rows[n], project_id, providers[n], nowT)
         IN  IF IsRaise(before) THEN before
             ELSE IF IsRaise(this) THEN this
             ELSE [tasks |-> before.tasks \o this.tasks]

-----------------------------------------------------------------------------
(* ReportService.generate_daily_report *)

TopN == 10

(* the ids of the tasks of a project, in table order *)
ProjectTaskIds(rows, project_id) ==
    LET ids == {i \in DOMAIN rows : rows[i].project_id = project_id}
        RECURSIVE Ascending(_)
        Ascending(S) ==
            IF S = {} THEN <<>>
            ELSE LET m == CHOOSE x \in S : \A y \in S : x <= y
                 IN  <<m>> \o Ascending(S \ {m})
    IN  Ascending(ids)

(* the dict generate_daily_report builds of a task row *)
report_task_dict(id, task, nowT) ==
    [id |-> id,
     title |-> task.title,
     description |-> task.description,
     status |-> task.status,
     deadline |-> task.deadline,
     assignee |-> task.assignee,
     priority_score |-> task.priority_score,
     ai_risk_level |-> task.ai_risk_level,
     task_type |-> task.task_type,
     current_date |-> <<nowT>>]

report_task_dicts(rows, project_id, nowT) ==
    LET ids == ProjectTaskIds(rows, project_id)
    IN  [k \in DOMAIN ids |-> report_task_dict(ids[k], rows[ids[k]], nowT)]

(* [{'task': t['title'], 'reason': 'Marked as blocked'} for t in task_dicts
    if t['status'] == 'blocked'] *)
RECURSIVE blocked_tasks_of(_)
blocked_tasks_of(task_dicts) ==
    IF task_dicts = <<>> THEN <<>>
    ELSE LET n == Len(task_dicts)
             before == blocked_tasks_of(SubSeq(task_dicts, 1, n - 1))
         IN  IF task_dicts[n].status = "blocked"
             THEN Append(before, [task |-> task_dicts[n].title,
                                  reason |-> "Marked as blocked"])
             ELSE before

(* AIService.generate_daily_summary: the provider's parsed JSON, or the dict
   of the except branch *)
generate_daily_summary(provider) ==
    IF provider = ProviderFailure
    THEN [key_progress |-> <<>>,
          risks |-> <<>>,
          urgent_tasks |-> <<>>,
          blocked_items |-> <<>>,
          summary_text |-> "Unable to generate summary at this time."]
    ELSE provider

(* the keys whose values are datetime objects when they are not None *)
DatetimeKeys == {"deadline", "current_date"}

(* json.dumps of a list of dicts, without default=: the text (kept as the
   value it encodes), or TypeError for a datetime anywhere in it *)
json_dumps(list) ==
    IF \E i \in DOMAIN list : \E k \in DOMAIN list[i] \cap DatetimeKeys :
           list[i][k] # Null
    THEN Raise("TypeError")
    ELSE [json |-> list]

(* json.loads of a text json.dumps gave *)
json_loads(text) == text.json

(* ranked_tasks[:10] *)
Top(list) == SubSeq(list, 1, IF Len(list) < TopN THEN Len(list) ELSE TopN)

(* DailyReport(...) of lines 58-65: the row, or the TypeError of json.dumps *)
build_report(project_id, today, ai_summary, ranked_tasks, blocked_tasks) ==
    LET priority_list_json == json_dumps(Top(ranked_tasks))
        risks_json == json_dumps(Get(ai_summary, "risks", <<>>))
        blocked_tasks_json == json_dumps(blocked_tasks)
    IN  IF IsRaise(priority_list_json) THEN priority_list_json
        ELSE IF IsRaise(risks_json) THEN risks_json
        ELSE IF IsRaise(blocked_tasks_json) THEN blocked_tasks_json
        ELSE [project_id |-> project_id,
              date |-> today,
              summary_text |-> Get(ai_summary, "summary_text", ""),
              priority_list_json |-> priority_list_json,
              risks_json |-> risks_json,
              blocked_tasks_json |-> blocked_tasks_json]

(* the ids of the reports of a project and a date *)
ReportsOf(project_id, date) ==
    {i \in DOMAIN reports :
        reports[i].project_id = project_id /\ reports[i].date = date}

-----------------------------------------------------------------------------
(* The specification of the engine behind a server that handles one request
   at a time: a request runs to its end before the next one starts, and only
   the clock moves while it runs.  generate_daily_report runs in four steps:
   the ranking (lines 21-45), the narrative and the report object (47-65),
   the lookup of today's report (67-71) and the write (73-86). *)

MaxNow == 2
MaxTasks == 2

Callers == {1, 2}

Idle == [pc |-> "idle"]
NoCall == [kind |-> "none"]
NoRow == [none |-> TRUE]

(* the TaskCreate bodies the model posts: project 2 stays without tasks *)
TaskCreates ==
    {[project_id |-> p, title |-> "T", description |-> "",
      deadline |-> None, assignee |-> None] : p \in {1} \cup MissingProjects}

(* what the provider answers to analyze_task *)
TaskAnalyses ==
    {ProviderFailure,
     [description |-> "ai text", story_points |-> Null]}

(* the CSV files the model uploads, as DictReader rows *)
CsvFiles ==
    {<<[description |-> "no title", status |-> "done"],
       [title |-> "T", description |-> "text", status |-> "Blocked",
        assignee |-> "alice", deadline |-> "day0"]>>,
     <<[Title |-> "T", Status |-> "In Progress", deadline |-> "soon"]>>}

(* what the provider answers to generate_daily_summary *)
SummaryResponses ==
    {ProviderFailure,
     [key_progress |-> <<"p">>,
      risks |-> <<[task |-> "T", reason |-> "late"]>>,
      urgent_tasks |-> <<"T">>,
      blocked_items |-> <<[task |-> "T", reason |-> "waiting"]>>,
      summary_text |-> "summary"]}

Init ==
    /\ now = 0
    /\ tasks = <<>>
    /\ reports = <<>>
    /\ frame = [c \in Callers |-> Idle]
    /\ last = [c \in Callers |-> NoCall]
    /\ input = 0
    /\ output = NoOutput

AllIdle == \A c \in Callers : frame[c].pc = "idle"

(* the clock moves *)
Tick ==
    /\ now < MaxNow
    /\ now' = now + 1
    /\ UNCHANGED <<tasks, reports, frame, last, input, output>>

(* the record of a caller's latest call notes that the tasks table was
   written after it *)
TasksWritten ==
    last' = [c \in Callers |->
                IF last[c].kind = "none" THEN last[c]
                ELSE [last[c] EXCEPT !.tasks_changed = TRUE]]

(* POST /tasks: api/tasks.py create_task *)
create_task(task_data, provider) ==
    /\ Len(tasks) < MaxTasks
    /\ LET row == create_task_row(task_data, provider, now)
       IN  IF task_data.project_id \notin Projects \/ IsRaise(row)
           THEN UNCHANGED <<tasks, last>>
           ELSE tasks' = Append(tasks, row) /\ TasksWritten
    /\ UNCHANGED <<now, reports, frame, input, output>>

(* POST /tasks/import/csv: api/tasks.py import_csv, TaskService.import_from_csv *)
import_from_csv(rows, project_id, providers) ==
    LET result == import_rows(rows, project_id, providers, now)
    IN  /\ project_id \in Projects
        /\ IF IsRaise(result)
           THEN UNCHANGED <<tasks, last>>
           ELSE /\ Len(tasks) + Len(result.tasks) <= MaxTasks
                /\ tasks' = tasks \o result.tasks
                /\ TasksWritten
        /\ UNCHANGED <<now, reports, frame, input, output>>

(* PATCH /tasks/{task_id}/status: api/tasks.py update_task_status *)
update_task_status(task_id, status) ==
    /\ IF task_id \in DOMAIN tasks
       THEN tasks' = [tasks EXCEPT ![task_id].status = status] /\ TasksWritten
       ELSE UNCHANGED <<tasks, last>>
    /\ UNCHANGED <<now, reports, frame, input, output>>

(* what a finished generate_daily_report call was given and returned: the
   project, the provider's answer (if it was asked), the calendar day the call
   ran on (-1 when the day changed between its two readings of the clock),
   the outcome, and for a returned report its id, its row, the number of
   rows then, and the values the call computed for the four content fields *)
CallRecord(project_id, response, day, kind, id, reports_after, computed) ==
    [kind |-> kind,
     computed |-> computed,
     project_id |-> project_id,
     response |-> response,
     day |-> day,
     id |-> id,
     row |-> IF kind = "report" THEN reports_after[id] ELSE NoRow,
     count |-> Len(reports_after),
     tasks_changed |-> FALSE]

Return(c, call) ==
    /\ last' = [last EXCEPT ![c] = call]
    /\ frame' = [frame EXCEPT ![c] = Idle]

(* lines 21-45: the project, its tasks, the dicts, the ranking *)
GenRank(c, project_id) ==
    /\ frame[c].pc = "idle"
    /\ IF project_id \notin Projects
       THEN Return(c, CallRecord(project_id, [not_called |-> TRUE],
                                 DateOf(now), "ValueError", 0, reports, NoRow))
       ELSE /\ frame' = [frame EXCEPT ![c] =
                   [pc |-> "ranked",
                    project_id |-> project_id,
                    task_dicts |-> score_tasks(report_task_dicts(tasks, project_id, now)),
                    ranked_tasks |-> rank_tasks_by_priority(
                                         report_task_dicts(tasks, project_id, now))]]
            /\ UNCHANGED last
    /\ UNCHANGED <<now, tasks, reports, input, output>>

(* lines 47-65: one call of the narrative provider, the blocked tasks, the
   DailyReport object with date.today() *)
GenBuild(c, provider) ==
    /\ frame[c].pc = "ranked"
    /\ LET f == frame[c]
           ai_summary == generate_daily_summary(provider)
           blocked_tasks == blocked_tasks_of(f.task_dicts)
           report == build_report(f.project_id, DateOf(now), ai_summary,
                                  f.ranked_tasks, blocked_tasks)
       IN  IF IsRaise(report)
           THEN Return(c, CallRecord(f.project_id, provider,
                                     DateOf(now), report.raised, 0, reports, NoRow))
           ELSE /\ frame' = [frame EXCEPT ![c] =
                       [pc |-> "built",
                        project_id |-> f.project_id,
                        response |-> provider,
                        provider_calls |-> 1,
                        computed |-> [summary_text |-> Get(ai_summary, "summary_text", ""),
                                      priority_tasks |-> Top(f.ranked_tasks),
                                      risks |-> Get(ai_summary, "risks", <<>>),
                                      blocked_tasks |-> blocked_tasks],
                        report |-> report]]
                /\ UNCHANGED last
    /\ UNCHANGED <<now, tasks, reports, input, output>>

(* lines 67-71: the report of (project_id, date.today()), if any; .first()
   has no ORDER BY, so any matching row may be the one returned *)
GenLookup(c) ==
    /\ frame[c].pc = "built"
    /\ LET f == frame[c]
           found == ReportsOf(f.project_id, DateOf(now))
       IN  \E existing \in (IF found = {} THEN {0} ELSE found) :
               frame' = [frame EXCEPT ![c] =
                   [pc |-> "looked",
                    project_id |-> f.project_id,
                    response |-> f.response,
                    provider_calls |-> f.provider_calls,
                    computed |-> f.computed,
                    report |-> f.report,
                    looked_on |-> DateOf(now),
                    existing_report |-> existing]]
    /\ UNCHANGED <<now, tasks, reports, last, input, output>>

(* lines 73-86 over a table that refuses a second row for one
   (project_id, date): the insert fails and nothing is written *)
GenWrite_unique(c) ==
    /\ frame[c].pc = "looked"
    /\ LET f == frame[c]
           day == IF f.report.date = f.looked_on THEN f.looked_on ELSE -1
       IN  IF f.existing_report = 0 /\ ReportsOf(f.project_id, f.report.date) # {}
           THEN /\ UNCHANGED reports
                /\ Return(c, CallRecord(f.project_id, f.response, day,
                                        "IntegrityError", 0, reports, NoRow))
           ELSE LET id == IF f.existing_report # 0 THEN f.existing_report
                          ELSE Len(reports) + 1
                    after == IF f.existing_report # 0
                             THEN [reports EXCEPT ![id] =
                                     [@ EXCEPT !.summary_text = f.report.summary_text,
                                               !.priority_list_json = f.report.priority_list_json,
                                               !.risks_json = f.report.risks_json,
                                               !.blocked_tasks_json = f.report.blocked_tasks_json]]
                             ELSE Append(reports, f.report)
                IN  /\ reports' = after
                    /\ Return(c, CallRecord(f.project_id, f.response,
                                            day, "report", id, after, f.computed))
    /\ UNCHANGED <<now, tasks, input, output>>

(* lines 73-86 without the update branch: the new row is added whether or
   not the lookup found one *)
GenWrite_always_insert(c) ==
    /\ frame[c].pc = "looked"
    /\ LET f == frame[c]
           day == IF f.report.date = f.looked_on THEN f.looked_on ELSE -1
           after == Append(reports, f.report)
       IN  /\ reports' = after
           /\ Return(c, CallRecord(f.project_id, f.response,
                                   day, "report", Len(after), after, f.computed))
    /\ UNCHANGED <<now, tasks, input, output>>

(* lines 73-86: the four content fields of the existing row are overwritten,
   or the new row is added *)
GenWrite(c) ==
    /\ frame[c].pc = "looked"
    /\ LET f == frame[c]
           day == IF f.report.date = f.looked_on THEN f.looked_on ELSE -1
           id == IF f.existing_report # 0 THEN f.existing_report ELSE Len(reports) + 1
           after == IF f.existing_report # 0
                    THEN [reports EXCEPT ![id] =
                            [@ EXCEPT !.summary_text = f.report.summary_text,
                                      !.priority_list_json = f.report.priority_list_json,
                                      !.risks_json = f.report.risks_json,
                                      !.blocked_tasks_json = f.report.blocked_tasks_json]]
                    ELSE Append(reports, f.report)
       IN  /\ reports' = after
           /\ Return(c, CallRecord(f.project_id, f.response,
                                   day, "report", id, after, f.computed))
    /\ UNCHANGED <<now, tasks, input, output>>

Next ==
    \/ Tick
    \/ AllIdle /\ \E task_data \in TaskCreates, provider \in TaskAnalyses :
           create_task(task_data, provider)
    \/ AllIdle /\ \E task_id \in 1..(MaxTasks + 1), status \in {"blocked"} :
           update_task_status(task_id, status)
    \/ AllIdle /\ \E project_id \in Projects \cup MissingProjects : GenRank(1, project_id)
    \/ \E provider \in SummaryResponses : GenBuild(1, provider)
    \/ GenLookup(1)
    \/ GenWrite(1)

Spec == Init /\ [][Next]_vars

-----------------------------------------------------------------------------
(* The specification of two generate_daily_report requests served at the same
   time (two workers, or two threads of FastAPI's pool for def endpoints, each
   with its own session): the steps of the two calls interleave freely, all
   within one calendar day, for one project.  No task exists. *)

ConcNext ==
    \/ \E c \in Callers, project_id \in {2} : GenRank(c, project_id)
    \/ \E c \in Callers, provider \in SummaryResponses : GenBuild(c, provider)
    \/ \E c \in Callers : GenLookup(c)
    \/ \E c \in Callers : GenWrite(c)

ConcSpec == Init /\ [][ConcNext]_vars

-----------------------------------------------------------------------------
(* The specification of the task lifecycle alone, at any one reference date
   held fixed: tasks are created, imported and have their status changed; no
   report is asked for. *)

(* the TaskCreate bodies the model posts *)
LifecycleCreates ==
    [project_id : {1},
     title : {"T"},
     description : {"", "text"},
     deadline : {None, "day0T12", "tomorrow"},
     assignee : {None, "alice"}]

(* what the provider answers to analyze_task *)
LifecycleAnalyses ==
    {ProviderFailure,
     [description |-> "ai text", acceptance_criteria |-> <<>>, subtasks |-> <<>>,
      story_points |-> <<8>>, task_type |-> "bug", tags |-> <<>>],
     [description |-> "ai text", story_points |-> Null]}

LifecycleInit ==
    /\ now \in 0..MaxNow
    /\ tasks = <<>>
    /\ reports = <<>>
    /\ frame = [c \in Callers |-> Idle]
    /\ last = [c \in Callers |-> NoCall]
    /\ input = 0
    /\ output = NoOutput

LifecycleNext ==
    \/ \E task_data \in LifecycleCreates, provider \in LifecycleAnalyses :
           create_task(task_data, provider)
    \/ \E rows \in CsvFiles, project_id \in Projects :
           \E providers \in [DOMAIN rows -> LifecycleAnalyses] :
               import_from_csv(rows, project_id, providers)
    \/ \E task_id \in 1..(MaxTasks + 1), status \in StatusValues :
           update_task_status(task_id, status)

LifecycleSpec == LifecycleInit /\ [][LifecycleNext]_vars

-----------------------------------------------------------------------------
(* The specification of the CSV import and of create_task_from_text alone, at
   any one reference date: files are uploaded and tasks created one after the
   other, and _normalize_status is applied to each value that import_from_csv
   can pass to it. *)

(* the values of status at line 28: a string of the file, the default
   'todo', or None (DictReader fills the missing fields of a short row with
   None, and row.get('Status', 'todo') returns it) *)
StatusInputs ==
    {None, "", "todo", "TODO", "To Do", "to_do", "In Progress", "IN PROGRESS",
     "in_progress", "inprogress", "Doing", "done", "Completed", "Blocked",
     "Unclear", "weird"}

(* DictReader rows of a file with the header
   title,description,status,assignee,deadline; the last is a short row *)
LowerHeaderRows ==
    {[title |-> "T", description |-> "text", status |-> "Blocked",
      assignee |-> "alice", deadline |-> "day0"],
     [title |-> "", description |-> "no title", status |-> "done",
      assignee |-> "", deadline |-> ""],
     [title |-> "W", description |-> None, status |-> None,
      assignee |-> None, deadline |-> None]}

(* DictReader rows of a file with the header Title,Status,Deadline; the last
   is a short row *)
UpperHeaderRows ==
    {[Title |-> "U", Status |-> "weird", Deadline |-> "soon"],
     [Title |-> "", Status |-> "", Deadline |-> ""],
     [Title |-> "V", Status |-> None, Deadline |-> None]}

MaxRows == 2

ImportFiles ==
    UNION {[1..n -> LowerHeaderRows] \cup [1..n -> UpperHeaderRows] : n \in 1..MaxRows}

ImportAnalyses ==
    {ProviderFailure,
     [description |-> "ai text", story_points |-> Null]}

ImportInit ==
    /\ now \in 0..MaxNow
    /\ tasks = <<>>
    /\ reports = <<>>
    /\ frame = [c \in Callers |-> Idle]
    /\ last = [c \in Callers |-> NoCall]
    /\ input = 0
    /\ output = NoOutput

Call__normalize_status(status) ==
    /\ input' = status
    /\ output' = [op |-> "_normalize_status", val |-> _normalize_status(status)]
    /\ UNCHANGED store_vars

(* import_from_csv with its return value: the tasks returned are the tasks
   committed; an exception leaves the table as it was *)
Call_import_from_csv(rows, project_id, providers) ==
    LET result == import_rows(rows, project_id, providers, now)
    IN  /\ input' = [rows |-> rows, project_id |-> project_id, providers |-> providers]
        /\ output' = [op |-> "import_from_csv", val |-> result]
        /\ IF IsRaise(result)
           THEN UNCHANGED tasks
           ELSE /\ Len(tasks) + Len(result.tasks) <= MaxTasks
                /\ tasks' = tasks \o result.tasks
        /\ UNCHANGED <<now, reports, frame, last>>

(* create_task_from_text with its return value: the task returned is the
   task committed *)
Call_create_task_from_text(title, description, project_id, provider) ==
    LET task == create_task_from_text(title, description, project_id, provider, now)
    IN  /\ input' = [title |-> title, description |-> description,
                     project_id |-> project_id, provider |-> provider]
        /\ output' = [op |-> "create_task_from_text", val |-> task]
        /\ IF IsRaise(task)
           THEN UNCHANGED tasks
           ELSE /\ Len(tasks) < MaxTasks
                /\ tasks' = Append(tasks, task)
        /\ UNCHANGED <<now, reports, frame, last>>

ImportNext ==
    \/ \E status \in StatusInputs : Call__normalize_status(status)
    \/ \E description \in {"text"}, provider \in LifecycleAnalyses :
           Call_create_task_from_text("T", description, 1, provider)
    \/ \E rows \in ImportFiles, project_id \in {1} :
           \E providers \in [DOMAIN rows -> ImportAnalyses] :
               Call_import_from_csv(rows, project_id, providers)

ImportSpec == ImportInit /\ [][ImportNext]_vars

-----------------------------------------------------------------------------
(* ReportService.get_report_summary and generate_stakeholder_email, and the
   specification of the readers of reports: reports are generated one request
   at a time as in Spec, here with the clock moving between requests only,
   and between requests a report is read back or the stakeholder email of a
   project is asked for. *)

(* str(report.date): the ISO text of the date *)
str_date(date) == [isoformat |-> date]

(* json.loads(text) if text else []: a stored text is never empty *)
loads_or_empty(text) == IF "json" \in DOMAIN text THEN json_loads(text) ELSE <<>>

get_report_summary_swapped(report_id) ==
    IF report_id \notin DOMAIN reports THEN Raise("ValueError")
    ELSE LET report == reports[report_id]
         IN  [date |-> str_date(report.date),
              summary |-> report.summary_text,
              priority_tasks |-> loads_or_empty(report.priority_list_json),
              risks |-> loads_or_empty(report.blocked_tasks_json),
              blocked_tasks |-> loads_or_empty(report.risks_json)]

(* ReportService.get_report_summary: the view, or ValueError *)
get_report_summary(report_id) ==
    IF report_id \notin DOMAIN reports THEN Raise("ValueError")
    ELSE LET report == reports[report_id]
         IN  [date |-> str_date(report.date),
              summary |-> report.summary_text,
              priority_tasks |-> loads_or_empty(report.priority_list_json),
              risks |-> loads_or_empty(report.risks_json),
              blocked_tasks |-> loads_or_empty(report.blocked_tasks_json)]

(* generate_daily_report run at one reading nowT of the clock, with
   existing_report the row the lookup returns (0 for none): the table after
   it and the id of the report returned, or the exception *)
generate_daily_report(project_id, provider, nowT, existing_report) ==
    IF project_id \notin Projects THEN Raise("ValueError")
    ELSE LET task_dicts == score_tasks(report_task_dicts(tasks, project_id, nowT))
             ranked_tasks == rank_tasks_by_priority(
                                 report_task_dicts(tasks, project_id, nowT))
             ai_summary == generate_daily_summary(provider)
             report == build_report(project_id, DateOf(nowT), ai_summary,
                                    ranked_tasks, blocked_tasks_of(task_dicts))
         IN  IF IsRaise(report) THEN report
             ELSE IF existing_report # 0
             THEN [reports |-> [reports EXCEPT ![existing_report] =
                       [@ EXCEPT !.summary_text = report.summary_text,
                                 !.priority_list_json = report.priority_list_json,
                                 !.risks_json = report.risks_json,
                                 !.blocked_tasks_json = report.blocked_tasks_json]],
                   id |-> existing_report]
             ELSE [reports |-> Append(reports, report), id |-> Len(reports) + 1]

(* what the provider answers to generate_stakeholder_update *)
EmailResponses == {ProviderFailure, [text |-> "email"]}

(* AIService.generate_stakeholder_update: the provider's text, or the fixed
   sentence of the except branch *)
generate_stakeholder_update(daily_summary, project_name, provider) ==
    IF provider = ProviderFailure
    THEN [text |-> "update: Work is progressing as planned.", project |-> project_name]
    ELSE [text |-> provider.text]

(* ReportService.get_report_summary applied to a report id, as
   api/reports.py calls it on a stored report *)
Call_get_report_summary(report_id) ==
    /\ input' = report_id
    /\ output' = [op |-> "get_report_summary", val |-> get_report_summary(report_id)]
    /\ UNCHANGED store_vars

(* GET /reports/{project_id}/stakeholder-email: api/reports.py
   get_stakeholder_email and ReportService.generate_stakeholder_email.  The
   record of the call holds the ids of the project's reports before and after
   it and the id of the report the email was written from. *)
Call_generate_stakeholder_email(project_id, summary_provider, email_provider) ==
    LET before == {i \in DOMAIN reports : reports[i].project_id = project_id}
        latest == {i \in before : \A j \in before : reports[j].date <= reports[i].date}
        generated == generate_daily_report(project_id, summary_provider, now, 0)
        Email(report) ==
            generate_stakeholder_update(
                [summary_text |-> report.summary_text,
                 priority_tasks |-> loads_or_empty(report.priority_list_json),
                 risks |-> loads_or_empty(report.risks_json),
                 blocked_tasks |-> loads_or_empty(report.blocked_tasks_json)],
                project_id, email_provider)
        Result(val, after, used) ==
            [op |-> "generate_stakeholder_email", val |-> val,
             before |-> before, after |-> after, used |-> used]
    IN  /\ input' = project_id
        /\ IF project_id \notin Projects
           THEN /\ output' = Result(Raise("HTTPException"), before, 0)
                /\ UNCHANGED reports
           ELSE IF before # {}
           THEN /\ \E report \in latest :
                       output' = Result(Email(reports[report]), before, report)
                /\ UNCHANGED reports
           ELSE IF IsRaise(generated)
           THEN /\ output' = Result(generated, before, 0)
                /\ UNCHANGED reports
           ELSE /\ reports' = generated.reports
                /\ output' = Result(Email(generated.reports[generated.id]),
                                    {generated.id}, generated.id)
        /\ UNCHANGED <<now, tasks, frame, last>>

(* the TaskCreate bodies and provider answers of this specification *)
ReaderCreates ==
    {[project_id |-> 1, title |-> "T", description |-> "",
      deadline |-> None, assignee |-> None]}

ReaderNext ==
    \/ AllIdle /\ Tick
    \/ AllIdle /\ \E task_data \in ReaderCreates : create_task(task_data, ProviderFailure)
    \/ AllIdle /\ \E project_id \in Projects : GenRank(1, project_id)
    \/ \E provider \in SummaryResponses : GenBuild(1, provider)
    \/ GenLookup(1)
    \/ GenWrite(1)
    \/ AllIdle /\ \E report_id \in 1..(Len(reports) + 1) : Call_get_report_summary(report_id)
    \/ AllIdle /\ \E project_id \in Projects \cup MissingProjects,
                     summary_provider \in SummaryResponses,
                     email_provider \in EmailResponses :
           Call_generate_stakeholder_email(project_id, summary_provider, email_provider)

ReaderSpec == Init /\ [][ReaderNext]_vars

-----------------------------------------------------------------------------
(* The reference classification and the reference score, as stated: sums of
   independent terms read off the task dict. *)

RefOverdue(task) ==
    "deadline" \in DOMAIN task /\ task.deadline # Null
    /\ task.deadline[1] < task.current_date[1]

RefRiskSum(task) ==
    (IF RefOverdue(task) THEN 3 ELSE 0)
    + (IF task.assignee \in {None, ""} THEN 1 ELSE 0)
    + (IF task.status = "blocked" THEN 3 ELSE 0)
    + (IF task.status = "unclear" \/ task.description \in {None, ""} THEN 2 ELSE 0)
    + (IF "story_points" \in DOMAIN task /\ task.story_points # Null
          /\ task.story_points[1] >= 8 THEN 1 ELSE 0)

RefRiskLevel(task) ==
    CASE RefRiskSum(task) \in {0, 1} -> "low"
      [] RefRiskSum(task) \in {2, 3} -> "medium"
      [] OTHER -> "high"

RefDaysUntil(task) == (task.deadline[1] - task.current_date[1]) \div TicksPerDay

RefUrgency(task) ==
    IF task.deadline = Null THEN 0
    ELSE CASE RefDaysUntil(task) < 0 -> 100
           [] RefDaysUntil(task) \in {0, 1} -> 50
           [] RefDaysUntil(task) \in {2, 3} -> 30
           [] RefDaysUntil(task) \in 4..7 -> 20
           [] OTHER -> 0

RefScore(task) ==
    RefUrgency(task)
    + (CASE task.status = "blocked" -> 40
         [] task.status = "in_progress" -> 25
         [] OTHER -> 0)
    + (CASE task.ai_risk_level = "high" -> 30
         [] task.ai_risk_level = "medium" -> 15
         [] OTHER -> 5)
    + (CASE task.task_type = "bug" -> 20
         [] OTHER -> 0)

(* C9: detect_risk_level equals the reference classification for every task
   dict whose story_points is a number or is missing from the dict: +3 for a
   deadline strictly before the reference date, +1 for no assignee, +3 for
   blocked, +2 once for unclear or no description, +1 for story_points >= 8;
   high from 4, medium for 2 and 3, low for 0 and 1. *)
C9_DetectRiskLevelIsReference ==
    (output.op = "detect_risk_level" /\ Get(input, "story_points", <<0>>) # Null)
        => output.val = RefRiskLevel(input)

(* C9 witness: an unclear task without description, assigned, not overdue,
   of 8 story points: the +2 is added once, the sum is 3 and the level medium *)
C9_Witness ==
    /\ output.op = "detect_risk_level"
    /\ input.status = "unclear" /\ input.description = ""
    /\ input.assignee = "alice" /\ input.deadline = Null
    /\ Get(input, "story_points", <<0>>) = <<8>>
    /\ output.val = "medium"

(* C10: calculate_priority_score equals the reference sum of the urgency,
   status, risk and type terms for every task dict; every score is at least 5,
   and an in_progress, medium-risk feature without deadline scores 40. *)
C10_PriorityScoreIsReference ==
    output.op = "calculate_priority_score" =>
        /\ output.val = RefScore(input)
        /\ output.val >= 5
        /\ (/\ input.status = "in_progress" /\ input.ai_risk_level = "medium"
            /\ input.task_type = "feature" /\ input.deadline = Null)
               => output.val = 40

(* C10 witness: a deadline one whole day ahead (days-until = 1) counts 50 *)
C10_Witness ==
    /\ output.op = "calculate_priority_score"
    /\ input.deadline # Null
    /\ RefDaysUntil(input) = 1
    /\ input.status = "in_progress" /\ input.ai_risk_level = "medium"
    /\ input.task_type = "feature"
    /\ output.val = 90

(* C6: rank_tasks_by_priority returns a permutation of its input (each dict
   carrying its computed score) in which scores never increase from first to
   last and dicts of equal score keep their input order. *)
C6_RankIsStableDescendingPermutation ==
    output.op = "rank_tasks_by_priority" =>
        LET out == output.val
            scored == score_tasks(input)
        IN  /\ Len(out) = Len(input)
            /\ \A i \in DOMAIN scored :
                   Cardinality({j \in DOMAIN out : out[j] = scored[i]})
                   = Cardinality({j \in DOMAIN scored : scored[j] = scored[i]})
            /\ \A i, j \in DOMAIN out :
                   i < j => /\ out[i].priority_score >= out[j].priority_score
                            /\ out[i].priority_score = out[j].priority_score
                                   => out[i].id < out[j].id

(* C6 witness: a ranking that moved a dict forward past two dicts of equal
   score, which stay in input order *)
C6_Witness ==
    /\ output.op = "rank_tasks_by_priority"
    /\ Len(output.val) = 3
    /\ output.val[1].id = 3
    /\ output.val[2].id = 1 /\ output.val[3].id = 2
    /\ output.val[2].priority_score = output.val[3].priority_score
    /\ output.val[2].status # output.val[3].status

(* the counts of the reference classification, over the rows of project 1 *)
RefTotal == Len(tasks)
RefBlocked == Cardinality({i \in DOMAIN tasks : tasks[i].status = "blocked"})
RefHighRisk == Cardinality({i \in DOMAIN tasks : tasks[i].ai_risk_level = "high"})
RefOverdueCount ==
    Cardinality({i \in DOMAIN tasks :
        /\ tasks[i].deadline # Null
        /\ tasks[i].deadline[1] < now
        /\ tasks[i].status # "done"})

RefTimelineStatus ==
    CASE RefBlocked * 10 > 3 * RefTotal \/ RefOverdueCount * 5 > RefTotal -> "Off Track"
      [] OTHER ->
            IF RefHighRisk * 10 > 3 * RefTotal \/ RefOverdueCount > 0
            THEN "At Risk" ELSE "On Track"

(* C8: get_timeline_status is the reference classification: no task gives
   "Needs More Info" with the fixed reason and no metrics; otherwise Off Track
   when blocked > 30% or overdue > 20% of the total, else At Risk when
   high-risk > 30% of the total or anything is overdue, else On Track; exactly
   30% blocked and exactly 20% overdue do not give Off Track, 4 blocked of 10
   do; overdue counts rows with a deadline before now that are not done. *)
C8_TimelineStatusIsReference ==
    output.op = "get_timeline_status" =>
        /\ tasks = <<>> =>
               output.val = [status |-> "Needs More Info",
                             reason |-> [text |-> "No tasks found in project"]]
        /\ tasks # <<>> =>
               /\ output.val.status = RefTimelineStatus
               /\ output.val.metrics.overdue = RefOverdueCount
        /\ (RefTotal = 10 /\ RefBlocked = 3 /\ RefOverdueCount <= 2)
               => output.val.status # "Off Track"
        /\ (RefTotal = 10 /\ RefBlocked = 4 /\ RefOverdueCount = 0)
               => output.val.status = "Off Track"

(* C8 witness: 10 rows, exactly 30% blocked and exactly 20% overdue, one row
   done with a past deadline: not Off Track, and At Risk by the overdue rows *)
C8_Witness ==
    /\ output.op = "get_timeline_status"
    /\ RefTotal = 10 /\ RefBlocked = 3 /\ RefOverdueCount = 2
    /\ \E i \in DOMAIN tasks : tasks[i].status = "done" /\ tasks[i].deadline = <<0>>
    /\ output.val.status = "At Risk"

(* C1: after generate_daily_report calls made one at a time, the table holds
   at most one report per (project_id, date). *)
C1_AtMostOneReportPerProjectAndDate ==
    \A i, j \in DOMAIN reports :
        (reports[i].project_id = reports[j].project_id
         /\ reports[i].date = reports[j].date) => i = j

(* C2: a call that repeats the caller's call before it (same project, same
   calendar day throughout both, tasks not written in between, same provider
   answer) returns a report as the first did, with the same id, leaves the
   stored row as the first call stored it, and adds no row. *)
C2_RepeatedCallIsIdempotent ==
    [][\A c \in Callers :
          (/\ frame[c].pc # "idle" /\ frame'[c].pc = "idle"
           /\ last[c].kind # "none"
           /\ ~last[c].tasks_changed
           /\ last'[c].project_id = last[c].project_id
           /\ last'[c].response = last[c].response
           /\ last'[c].day >= 0
           /\ last'[c].day = last[c].day)
          => /\ last[c].kind = "report"
             /\ last'[c].kind = "report"
             /\ last'[c].id = last[c].id
             /\ last'[c].row = last[c].row
             /\ last'[c].count = last[c].count]_vars

(* the derived fields of a task row as the classifier and the scorer give
   them for the row's current fields at the reference date now *)
RefRiskOfRow(task) == detect_risk_level(_task_to_dict(task, now))
RefScoreOfRow(task) ==
    calculate_priority_score(
        _task_to_dict([task EXCEPT !.ai_risk_level = RefRiskOfRow(task)], now))

(* C3: with the reference date held fixed, every stored task's ai_risk_level
   is detect_risk_level of its current fields and its priority_score is
   calculate_priority_score of its current fields and that level. *)
C3_DerivedFieldsAreCurrent ==
    \A i \in DOMAIN tasks :
        /\ tasks[i].ai_risk_level = RefRiskOfRow(tasks[i])
        /\ tasks[i].priority_score = RefScoreOfRow(tasks[i])

(* C4: every finished generate_daily_report call for an existing project
   returned a stored report, whatever the tasks; a call for a missing project
   ended in not-found, the only failure there is. *)
C4_ReportReturnedForEveryExistingProject ==
    \A c \in Callers :
        last[c].kind # "none" =>
            IF last[c].project_id \in Projects
            THEN /\ last[c].kind = "report"
                 /\ last[c].id \in DOMAIN reports
            ELSE last[c].kind = "ValueError"

(* C5: a call during which the narrative provider failed still returned a
   stored report, with the placeholder summary and no risks; the provider was
   called once. *)
C5_ProviderFailureStillGivesReport ==
    \A c \in Callers :
        /\ (last[c].kind # "none" /\ last[c].response = ProviderFailure) =>
               /\ last[c].kind = "report"
               /\ last[c].row.summary_text = "Unable to generate summary at this time."
               /\ json_loads(last[c].row.risks_json) = <<>>
        /\ frame[c].pc \in {"built", "looked"} => frame[c].provider_calls = 1

(* C7: every dict ranked by generate_daily_report carries the score of
   calculate_priority_score with the risk label detect_risk_level gives the
   dict at ranking time. *)
C7_RankingReclassifiesRisk ==
    \A c \in Callers :
        frame[c].pc = "ranked" =>
            \A k \in DOMAIN frame[c].ranked_tasks :
                LET d == frame[c].ranked_tasks[k]
                IN  d.priority_score =
                        calculate_priority_score(
                            SetKey(d, "ai_risk_level", detect_risk_level(d)))

(* the blocked tasks of a project as stated: one entry per task of the
   project whose status is blocked, in task order *)
RefBlockedEntries(project_id) ==
    LET ids == ProjectTaskIds(tasks, project_id)
        blocked == SelectSeq(ids, LAMBDA i : tasks[i].status = "blocked")
    IN  [k \in DOMAIN blocked |->
            [task |-> tasks[blocked[k]].title, reason |-> "Marked as blocked"]]

(* C11: whatever the narrative provider answered, a finished
   generate_daily_report call for an existing project stored a report whose
   blocked_tasks are exactly the blocked tasks of the project, in task order,
   each with its title and the reason 'Marked as blocked'. *)
C11_StoredBlockedTasksAreTheBlockedTasks ==
    \A c \in Callers :
        (/\ last[c].kind # "none"
         /\ last[c].project_id \in Projects
         /\ ~last[c].tasks_changed)
        => /\ last[c].kind = "report"
           /\ json_loads(last[c].row.blocked_tasks_json)
                  = RefBlockedEntries(last[c].project_id)

(* C12: a finished generate_daily_report call for a project with n tasks
   stored a priority list of min(10, n) entries, in non-increasing score
   order, and no task left out of it scores more than a task in it. *)
C12_StoredPriorityListIsTopOfRanking ==
    \A c \in Callers :
        (/\ last[c].kind # "none"
         /\ last[c].project_id \in Projects
         /\ ~last[c].tasks_changed)
        => /\ last[c].kind = "report"
           /\ LET list == json_loads(last[c].row.priority_list_json)
                  ids == ProjectTaskIds(tasks, last[c].project_id)
                  n == Len(ids)
                  listed == {list[k].id : k \in DOMAIN list}
              IN  /\ Len(list) = IF n < 10 THEN n ELSE 10
                  /\ \A k \in 1..(Len(list) - 1) :
                         list[k].priority_score >= list[k + 1].priority_score
                  /\ listed \subseteq {ids[k] : k \in DOMAIN ids}
                  /\ Cardinality(listed) = Len(list)
                  /\ \A k \in DOMAIN ids : ids[k] \notin listed =>
                         \A j \in DOMAIN list :
                             calculate_priority_score(
                                 report_task_dict(ids[k], tasks[ids[k]], now))
                                 <= list[j].priority_score

(* a task whose only risk factor is its status blocked: assigned, described,
   not overdue, fewer than 8 story points *)
OnlyBlocked(task) ==
    /\ task.status = "blocked"
    /\ task.assignee \notin {None, ""}
    /\ task.description \notin {None, ""}
    /\ ~RefOverdue(task)
    /\ Get(task, "story_points", <<0>>) # Null
    /\ Get(task, "story_points", <<0>>)[1] < 8

(* C17, as the code has it: a task whose only risk factor is status blocked
   has the risk sum 3 and is classified medium by detect_risk_level. *)
C17_BlockedAloneIsMedium ==
    (output.op = "detect_risk_level" /\ OnlyBlocked(input))
        => output.val = "medium"

(* C17 witness: a blocked, assigned, described task of 3 story points without
   deadline has been classified *)
C17_Witness ==
    /\ output.op = "detect_risk_level"
    /\ OnlyBlocked(input)
    /\ input.deadline = Null
    /\ Get(input, "story_points", <<0>>) = <<3>>
    /\ output.val = "medium"

(* C17, as stated: a task whose only risk factor is status blocked is
   classified high by detect_risk_level. *)
C17_BlockedAloneIsHigh ==
    (output.op = "detect_risk_level" /\ OnlyBlocked(input))
        => output.val = "high"

(* C18: calculate_priority_score never decreases when the deadline moves
   nearer to, or further past, the reference date with status, risk level and
   type kept: a task scores at least what it scores with any deadline of
   greater or equal days-until, and at least what it scores without deadline. *)
C18_ScoreMonotoneInUrgency ==
    output.op = "calculate_priority_score" =>
        /\ \A later \in FnDeadlines \ {Null} :
               (/\ input.deadline # Null
                /\ RefDaysUntil(input) <= RefDaysUntil(SetKey(input, "deadline", later)))
               => output.val >= calculate_priority_score(SetKey(input, "deadline", later))
        /\ output.val >= calculate_priority_score(SetKey(input, "deadline", Null))

(* C18 witness: a task one day overdue (days-until = -1) has been scored, and
   scores more than with its deadline eight days ahead *)
C18_Witness ==
    /\ output.op = "calculate_priority_score"
    /\ input.deadline # Null
    /\ RefDaysUntil(input) = -1
    /\ \E later \in FnDeadlines \ {Null} :
           /\ RefDaysUntil(SetKey(input, "deadline", later)) = 8
           /\ output.val > calculate_priority_score(SetKey(input, "deadline", later))

(* C19: detect_risk_level returns low, medium or high for every dict that
   _task_to_dict can give on create or import, story_points null included;
   an absent deadline and absent story_points add nothing to the sum. *)
C19_DetectRiskLevelNeverRaises ==
    output.op = "detect_risk_level" =>
        /\ output.val \in RiskValues
        /\ output.val = RefRiskLevel(input)

(* the status table as stated, on the lower-cased status with underscores
   for spaces; every other value, and a missing one, is TODO *)
RefStatus(status) ==
    LET key == IF status = None THEN "" ELSE replace_space(lower(status))
    IN  CASE key \in {"todo", "to_do"} -> "todo"
          [] key \in {"in_progress", "inprogress", "doing"} -> "in_progress"
          [] key \in {"done", "completed"} -> "done"
          [] key = "blocked" -> "blocked"
          [] key = "unclear" -> "unclear"
          [] OTHER -> "todo"

(* C15: _normalize_status gives the status of the table for every value it
   is given, TODO for every value outside the table, an empty or a missing
   status of a CSV row included, and never raises. *)
C15_StatusNormalizationIsTotal ==
    /\ output.op = "_normalize_status" => output.val = RefStatus(input)
    /\ output.op = "import_from_csv" =>
           ~(IsRaise(output.val) /\ output.val.raised = "AttributeError")

(* the title of a row: the first non-empty of title, Title, name, Name *)
RefTitle(row) ==
    LET present == {k \in {"title", "Title", "name", "Name"} :
                       k \in DOMAIN row /\ row[k] \notin {None, ""}}
    IN  IF "title" \in present THEN row.title
        ELSE IF "Title" \in present THEN row.Title
        ELSE IF "name" \in present THEN row.name
        ELSE IF "Name" \in present THEN row.Name
        ELSE None

(* C16: import_from_csv returns, in row order, one task per row that has a
   non-empty title, and does not raise; an unparseable deadline leaves the
   deadline unset. *)
C16_ImportReturnsOneTaskPerTitledRow ==
    output.op = "import_from_csv" =>
        LET titled == SelectSeq(input.rows, LAMBDA row : RefTitle(row) # None)
        IN  /\ ~IsRaise(output.val)
            /\ Len(output.val.tasks) = Len(titled)
            /\ \A k \in DOMAIN titled :
                   /\ output.val.tasks[k].title = RefTitle(titled[k])
                   /\ output.val.tasks[k].project_id = input.project_id
                   /\ GetOr(titled[k], "deadline", "Deadline", "") \in {None, "", "soon"}
                          => output.val.tasks[k].deadline = Null

(* C13: a stakeholder-email call for an existing project never fails; when
   the project had no report it leaves exactly one, the one the email is
   written from; when it had reports it creates none and writes the email
   from one with the latest date. *)
C13_EmailSelfHealsMissingReport ==
    (output.op = "generate_stakeholder_email" /\ input \in Projects) =>
        /\ ~IsRaise(output.val)
        /\ IF output.before = {}
           THEN Cardinality(output.after) = 1 /\ output.used \in output.after
           ELSE /\ output.after = output.before
                /\ output.used \in output.before
                /\ \A i \in output.before :
                       reports[i].date <= reports[output.used].date

(* the view of the report a finished generate_daily_report call returned, as
   that call computed its parts *)
RefView(call) ==
    [date |-> str_date(call.row.date),
     summary |-> call.computed.summary_text,
     priority_tasks |-> call.computed.priority_tasks,
     risks |-> call.computed.risks,
     blocked_tasks |-> call.computed.blocked_tasks]

(* C14: get_report_summary of the id a generate_daily_report call returned
   gives the report's date and the summary text, priority tasks, risks and
   blocked tasks that the call computed, in the same order, and changes
   neither table. *)
C14_ReportSummaryRoundTrip ==
    [][(output'.op = "get_report_summary" /\ (output' # output \/ input' # input))
         => /\ tasks' = tasks
            /\ reports' = reports
            /\ \A c \in Callers :
                   (last[c].kind = "report" /\ last[c].id = input')
                       => output'.val = RefView(last[c])]_vars

(* C14 witness: the report of a call for which the provider named a risk has
   been read back, with that risk in the view *)
C14_Witness ==
    /\ output.op = "get_report_summary"
    /\ ~IsRaise(output.val)
    /\ last[1].kind = "report"
    /\ last[1].id = input
    /\ last[1].computed.risks = <<[task |-> "T", reason |-> "late"]>>
    /\ output.val.risks = <<[task |-> "T", reason |-> "late"]>>
    /\ output.val.summary = "summary"

(* C20: a call that found no report of (project_id, today) at its lookup adds
   its own row at the write, whatever was written since the lookup: neither
   the table nor the service excludes a second row for the key. *)
C20_WriteAfterEmptyLookupInserts ==
    [][\A c \in Callers :
          (/\ frame[c].pc = "looked"
           /\ frame[c].existing_report = 0
           /\ frame'[c].pc = "idle")
          => reports' = Append(reports, frame[c].report)]_vars

(* C20 witness: two calls for the same project, each run within one calendar
   day, the same day, have each returned a report of their own: two rows of
   the same (project_id, date) *)
C20_Witness ==
    /\ last[1].kind = "report" /\ last[2].kind = "report"
    /\ last[1].project_id = last[2].project_id
    /\ last[1].day >= 0 /\ last[1].day = last[2].day
    /\ last[1].id # last[2].id
    /\ reports[last[1].id].project_id = reports[last[2].id].project_id
    /\ reports[last[1].id].date = last[1].day
    /\ reports[last[2].id].date = last[2].day
    /\ Cardinality(ReportsOf(last[1].project_id, last[1].day)) >= 2

(* C21: every task stored by import_from_csv or create_task_from_text has
   the priority_score that calculate_priority_score gives for the task with
   the ai_risk_level stored on it. *)
C21_StoredScoreUsesStoredRiskLevel ==
    \A i \in DOMAIN tasks :
        tasks[i].priority_score
            = calculate_priority_score(_task_to_dict(tasks[i], now))

(* C22: when the lookup of a generate_daily_report call is made while a
   report of (project_id, today) exists, the call's write changes one such
   report, and of it only summary_text, the priority list, the risks and the
   blocked tasks; that report is the one returned; the number of reports,
   every other report and every task stay as they were; and no earlier step
   of the call writes to either table. *)
C22_UpsertChangesOnlyContentOfExisting ==
    [][\A c \in Callers :
          /\ (frame[c].pc \in {"idle", "ranked", "built"} /\ frame'[c].pc # "idle")
                 => (reports' = reports /\ tasks' = tasks)
          /\ (/\ frame[c].pc = "looked"
              /\ frame'[c].pc = "idle"
              /\ ReportsOf(frame[c].project_id, frame[c].looked_on) # {})
                 => /\ tasks' = tasks
                    /\ Len(reports') = Len(reports)
                    /\ last'[c].kind = "report"
                    /\ last'[c].id \in ReportsOf(frame[c].project_id, frame[c].looked_on)
                    /\ \A i \in DOMAIN reports :
                           IF i = last'[c].id
                           THEN /\ reports'[i].project_id = reports[i].project_id
                                /\ reports'[i].date = reports[i].date
                                /\ DOMAIN reports'[i] = DOMAIN reports[i]
                           ELSE reports'[i] = reports[i]]_vars

(* C22 witness: a call has returned a report that is not the newest row, with
   the content of this call, while the table holds other reports *)
C22_Witness ==
    /\ last[1].kind = "report"
    /\ last[1].id < last[1].count
    /\ last[1].count = Len(reports)
    /\ last[1].response # ProviderFailure
    /\ reports[last[1].id].summary_text = "summary"
    /\ reports[last[1].id].date = last[1].day
    /\ \E i \in DOMAIN reports :
           reports[i].summary_text = "Unable to generate summary at this time."

(* C23: the row a generate_daily_report call inserts is dated the calendar
   day of the call's lookup, and the day it is dated had no report of the
   project before the insert. *)
C23_InsertedDateIsLookupDate ==
    [][\A c \in Callers :
          (/\ frame[c].pc = "looked"
           /\ frame'[c].pc = "idle"
           /\ Len(reports') = Len(reports) + 1)
          => /\ reports'[Len(reports')].date = frame[c].looked_on
             /\ ReportsOf(frame[c].project_id, reports'[Len(reports')].date) = {}]_vars

====
